---- MODULE Spec2Model ----
(***************************************************************************)
(* A model of satellite_consumer/storage.py: the store writer              *)
(* (write_to_zarr), the snapshot packager (create_latest_zip) and the      *)
(* backend resolver (get_s3_fs), as a state machine over a small world of  *)
(* two filesystems (local and S3), each call advancing one step at a time. *)
(***************************************************************************)
EXTENDS Integers, Sequences, FiniteSets, TLC

(***************************************************************************)
(* Bounds of the model.                                                    *)
(***************************************************************************)
\* calls a behaviour makes in all
MaxCalls == 3
\* time stamps an array can carry: 1..MaxTime
MaxTime == 2
\* 16 KiB blocks a staged archive is copied in
ArchiveBlocks == 2

(***************************************************************************)
(* Attribute values.  A value is [kind, body]; body is a sequence of       *)
(* tokens, so that a conversion is visible in the value it produces.       *)
(* Kinds: str, num, bool (Python bool), npbool (np.bool_), dict, area      *)
(* (pyresample AreaDefinition) and datetime.                               *)
(***************************************************************************)
AttrVal(k, b) == [kind |-> k, body |-> b]

\* An entry of a nested dict is three tokens: the inner key, the inner
\* value's type, the inner value.
DictBodies ==
    { <<"gain", "np.float32", "0.5">>,
      <<"gain", "float", "0.5">>,
      <<"gain", "np.float32", "0.5", "name", "str", "hrv">> }

SupportedValues ==
    { AttrVal("str", <<"MSG3">>),
      AttrVal("str", <<"True">>),
      AttrVal("num", <<"3">>),
      AttrVal("bool", <<"True">>),
      AttrVal("npbool", <<"False">>),
      AttrVal("area", <<"msg_seviri_rss_3km">>),
      AttrVal("datetime", <<"2023", "09", "10", "22", "12", "40">>) }
      \cup { AttrVal("dict", b) : b \in DictBodies }

(***************************************************************************)
(* storage.py:50-53: inside a nested dict every np.floating value is       *)
(* replaced by a Python float.                                             *)
(***************************************************************************)
RECURSIVE WidenFloats(_)
WidenFloats(b) ==
    IF Len(b) < 3 THEN <<>>
    ELSE LET ty == IF b[2] \in {"np.float32", "np.float64"} THEN "float" ELSE b[2]
         IN  <<b[1], ty, b[3]>> \o WidenFloats(SubSeq(b, 4, Len(b)))

\* yaml.dump of a dict: one "key: value" line per entry; a value that is no
\* plain Python scalar is written with a python/object tag.
RECURSIVE YamlDump(_)
YamlDump(b) ==
    IF Len(b) < 3 THEN <<>>
    ELSE LET rendered == IF b[2] \in {"float", "int", "str"}
                         THEN b[3] ELSE "!!python/object"
         IN  <<b[1], ":", rendered, "\n">> \o YamlDump(SubSeq(b, 4, Len(b)))

\* datetime.isoformat(): YYYY-MM-DDTHH:MM:SS
IsoFormat(b) ==
    <<b[1], "-", b[2], "-", b[3], "T", b[4], ":", b[5], ":", b[6]>>

\* AreaDefinition.dump(): the area's YAML document.
AreaDump(b) == <<b[1], ":", "description", "projection", "shape", "area_extent">>

\* The loop body without its last test (lines 60-61).
NormalizeValue_NoDatetime(v) ==
    IF v.kind = "dict" THEN AttrVal("str", YamlDump(WidenFloats(v.body)))
    ELSE IF v.kind \in {"bool", "npbool"} THEN AttrVal("str", v.body)
    ELSE IF v.kind = "area" THEN AttrVal("str", AreaDump(v.body))
    ELSE v

\* The loop body with yaml.dump applied to strings too: each dump ends the
\* document with a line break.
NormalizeValue_DumpStrings(v) ==
    IF v.kind = "dict" THEN AttrVal("str", YamlDump(WidenFloats(v.body)))
    ELSE IF v.kind = "str" THEN AttrVal("str", v.body \o <<"\n">>)
    ELSE IF v.kind \in {"bool", "npbool"} THEN AttrVal("str", v.body)
    ELSE IF v.kind = "area" THEN AttrVal("str", AreaDump(v.body))
    ELSE IF v.kind = "datetime" THEN AttrVal("str", IsoFormat(v.body))
    ELSE v

(***************************************************************************)
(* storage.py:47-61, the body of the loop for one value.  The four tests   *)
(* are separate ifs on the value read at the top of the iteration; the     *)
(* kinds are disjoint, so at most one fires.                               *)
(***************************************************************************)
NormalizeValue(v) ==
    IF v.kind = "dict" THEN AttrVal("str", YamlDump(WidenFloats(v.body)))
    ELSE IF v.kind \in {"bool", "npbool"} THEN AttrVal("str", v.body)
    ELSE IF v.kind = "area" THEN AttrVal("str", AreaDump(v.body))
    ELSE IF v.kind = "datetime" THEN AttrVal("str", IsoFormat(v.body))
    ELSE v

\* The attribute mapping is a sequence of [key, value] in insertion order.
Attr(k, v) == [key |-> k, value |-> v]

\* The loop run to its end: every entry replaced in place, keys kept.
NormalizeAttrs(attrs) ==
    [i \in 1..Len(attrs) |-> Attr(attrs[i].key, NormalizeValue(attrs[i].value))]

\* The loop stopped by an exception at entry n: the entries before n are
\* already replaced, entry n and the later ones are not.
NormalizeUpTo(attrs, n) ==
    [i \in 1..Len(attrs) |->
        IF i < n THEN Attr(attrs[i].key, NormalizeValue(attrs[i].value))
        ELSE attrs[i]]

\* The entries whose conversion calls into a library that can raise:
\* yaml.dump (line 54) and AreaDefinition.dump (line 58).
CanRaise(v) == v.kind \in {"dict", "area"}

RaisingCall(v) == IF v.kind = "dict" THEN "yaml.dump" ELSE "AreaDefinition.dump"

(***************************************************************************)
(* Exceptions.  what: the call that raised, or the wrapper's message;      *)
(* path: the path the message carries; var: the environment variable the   *)
(* message names; cause: the call whose error the wrapper was raised from. *)
(***************************************************************************)
Exc(w, p, v, c) == [what |-> w, path |-> p, var |-> v, cause |-> c]

NoExc == Exc("", <<>>, "", "")

\* An error of a library call, as the library raised it.
Underlying(origin) == Exc(origin, <<>>, "", "")

\* storage.py:113-116
MissingEnvError(var) == Exc("missing required authorization environment variable", <<>>, var, "")

\* storage.py:72: raise OSError(f"... zarr store {path}: {e}") from e
ZarrWriteError(path, e) == Exc("Error writing dataset to zarr store", path, "", e.what)

\* storage.py:95: raise OSError(f"... zip store '{zippath}': {e}") from e
ZipWriteError(zippath, e) == Exc("Error writing dataset to zip store", zippath, "", e.what)

(***************************************************************************)
(* Paths are the sequences of their "/"-separated segments:                *)
(* "s3://bkt/sat.zarr" is <<"s3:", "", "bkt", "sat.zarr">>.                *)
(***************************************************************************)
S3Path == <<"s3:", "", "bkt", "sat.zarr">>

LocalPath == <<"data", "sat.zarr">>

StorePaths == {S3Path, LocalPath}

\* path.startswith("s3://")
StartsWithS3(path) == Len(path) >= 3 /\ path[1] = "s3:" /\ path[2] = ""

\* storage.py:88: zarr_path.rsplit("/", 1)[0] + "/latest.zarr.zip"
ZipPath(path) ==
    (IF Len(path) = 1 THEN path ELSE SubSeq(path, 1, Len(path) - 1))
        \o <<"latest.zarr.zip">>

ZipPaths == { ZipPath(path) : path \in StorePaths }

(***************************************************************************)
(* The backend resolver.                                                   *)
(***************************************************************************)
RequiredVars == <<"AWS_ACCESS_KEY_ID", "AWS_SECRET_ACCESS_KEY">>

EnvVars == {"AWS_ACCESS_KEY_ID", "AWS_SECRET_ACCESS_KEY", "AWS_REGION"}

NoFs == [kind |-> "none", region |-> ""]

\* storage.py:34 and :78
LocalFs == [kind |-> "local", region |-> ""]

\* get_s3_fs as it would be if only the first variable were looked up.
FirstMissing_OnlyFirst(e, i) == IF RequiredVars[1] \notin e THEN 1 ELSE 0

\* storage.py:111-112: the first required variable, in list order, that is
\* not in the environment; 0 when none is missing.
RECURSIVE FirstMissing(_, _)
FirstMissing(e, i) ==
    IF i > Len(RequiredVars) THEN 0
    ELSE IF RequiredVars[i] \notin e THEN i
    ELSE FirstMissing(e, i + 1)

\* storage.py:108-123.  e is the set of environment variables that are set.
get_s3_fs(e) ==
    LET m == FirstMissing(e, 1)
    IN  IF m # 0
        THEN [ok |-> FALSE, fs |-> NoFs, exc |-> MissingEnvError(RequiredVars[m])]
        ELSE [ok |-> TRUE,
              fs |-> [kind |-> "s3",
                      region |-> IF "AWS_REGION" \in e THEN "$AWS_REGION" ELSE "eu-west-1"],
              exc |-> NoExc]

\* storage.py:34-36 and :78-80
ResolveFs(path, e) ==
    IF StartsWithS3(path) THEN get_s3_fs(e)
    ELSE [ok |-> TRUE, fs |-> LocalFs, exc |-> NoExc]

(***************************************************************************)
(* Arrays, stores and archives.                                            *)
(***************************************************************************)
\* A coordinate label with its dtype; astype(str) (line 65) makes it str.
Label(d, n) == [dtype |-> d, name |-> n]

AsStr(labels) == [i \in 1..Len(labels) |-> Label("str", labels[i].name)]

VariableCoords == { <<Label("object", "VIS006")>>, <<Label("str", "IR_016")>> }

\* The attribute mapping the callers' arrays carry: every kind of value.
ArrayAttrs ==
    { << Attr("platform", AttrVal("str", <<"MSG3">>)),
         Attr("calibration", AttrVal("dict", <<"gain", "np.float32", "0.5">>)),
         Attr("georef_offset_corrected", AttrVal("bool", <<"True">>)),
         Attr("area", AttrVal("area", <<"msg_seviri_rss_3km">>)),
         Attr("start_time", AttrVal("datetime", <<"2023", "09", "10", "22", "12", "40">>)),
         Attr("orbital_parameters", AttrVal("num", <<"3">>)),
         Attr("is_rss", AttrVal("npbool", <<"False">>)) >> }

NoArray == [attrs |-> <<>>, time |-> <<>>, variable |-> <<>>]

\* The arrays a caller builds: one time step, one channel.
Arrays ==
    { [attrs |-> a, time |-> <<t>>, variable |-> v] :
        a \in ArrayAttrs, t \in 1..MaxTime, v \in VariableCoords }

\* The chunk of one time step of one array (chunks: time 1, variable 1,
\* the two spatial axes whole): its bytes are those of the array's frame.
ChunkOf(da, i) == [t |-> da.time[i], channel |-> da.variable[1].name]

\* storage.py:64-66: the dataset written: chunked, the variable coordinate
\* as str, the array's attributes promoted to the dataset.
Dataset(da) ==
    [attrs |-> da.attrs,
     time |-> da.time,
     variable |-> AsStr(da.variable),
     chunks |-> [i \in 1..Len(da.time) |-> ChunkOf(da, i)]]

NoStore ==
    [exists |-> FALSE, complete |-> FALSE, attrs |-> <<>>, time |-> <<>>,
     variable |-> <<>>, chunks |-> <<>>, units |-> ""]

NoKwargs == [append_dim |-> "", encoding |-> ""]

\* storage.py:39-45
ExtraKwargs(mode) ==
    IF mode = "a"
    THEN [append_dim |-> "time", encoding |-> ""]
    ELSE [append_dim |-> "", encoding |-> "nanoseconds since 1970-01-01"]

\* Line 38 as it would be if the store were always created.
SelectMode_AlwaysCreate(exists) == "w"

\* storage.py:38
SelectMode(exists) == IF exists THEN "a" ELSE "w"

\* Dataset.to_zarr(mode="w", encoding=...): the store is replaced by the
\* dataset.
ZarrCreate(ds, kw) ==
    [exists |-> TRUE, complete |-> TRUE, attrs |-> ds.attrs, time |-> ds.time,
     variable |-> ds.variable, chunks |-> ds.chunks, units |-> kw.encoding]

\* An append that keeps nothing of the store but its encoding.
ZarrAppend_Overwrite(st, ds) ==
    [st EXCEPT !.attrs = ds.attrs, !.time = ds.time, !.variable = ds.variable,
               !.chunks = ds.chunks]

\* Dataset.to_zarr(mode="a", append_dim="time"): the variables with a time
\* dimension are extended, the others (the coordinates, the attributes) are
\* written again from the dataset; the store's encoding stays.
ZarrAppend(st, ds) ==
    [st EXCEPT !.attrs = ds.attrs,
               !.time = st.time \o ds.time,
               !.variable = ds.variable,
               !.chunks = st.chunks \o ds.chunks]

\* to_zarr as it would be if it looked at the store itself, appending to
\* whatever is there whichever mode it was given.
ToZarr_ByStore(st, ds, mode, kw) ==
    IF st.exists THEN ZarrAppend(st, ds) ELSE ZarrCreate(ds, kw)

\* storage.py:67-70, a commit that succeeds.
ToZarr(st, ds, mode, kw) ==
    IF mode = "a" THEN ZarrAppend(st, ds) ELSE ZarrCreate(ds, kw)

\* A failed commit as it would be if a create that failed removed what
\* it had written.
ZarrPartial_Removed(st, ds, mode) ==
    IF mode = "a"
    THEN [st EXCEPT !.complete = FALSE, !.time = st.time \o ds.time]
    ELSE NoStore

\* A commit that fails part-way: the group exists, the consolidated
\* metadata was not written, the data of this write is not all there.
ZarrPartial(st, ds, mode) ==
    IF mode = "a"
    THEN [st EXCEPT !.complete = FALSE, !.time = st.time \o ds.time]
    ELSE [NoStore EXCEPT !.exists = TRUE]

(***************************************************************************)
(* The state.                                                              *)
(***************************************************************************)
Procs == {"main", "other"}

VARIABLES
    workdir,  \* the store path this run of the consumer works on
    env,      \* the environment variables that are set
    stores,   \* the zarr store at each store path
    files,    \* the archive file at each archive path
    tmp,      \* each caller's NamedTemporaryFile
    arr,      \* the array object each caller holds
    call,     \* each caller's running call: its position and its locals
    hist,     \* what the running call has done so far
    wlog,     \* per store path, the datasets committed to it
    seen,     \* per caller, the normalizations its array object went through
    ncalls    \* calls started

vars == <<workdir, env, stores, files, tmp, arr, call, hist, wlog, seen, ncalls>>

NoFile == [exists |-> FALSE, blocks |-> 0, snap |-> NoStore, final |-> FALSE]

NoTmp == [exists |-> FALSE, blocks |-> 0, snap |-> NoStore, closed |-> FALSE]

NoHandle == [open |-> FALSE, buf |-> 0, snap |-> NoStore, final |-> FALSE]

NoCall ==
    [op |-> "none", pc |-> "done", path |-> <<>>, fs |-> NoFs, mode |-> "",
     kwargs |-> NoKwargs, zippath |-> <<>>, fdst |-> NoHandle, copied |-> 0,
     ret |-> "none", exc |-> NoExc, value |-> <<>>]

NoHist ==
    [exists_calls |-> 0, existed |-> FALSE, normalized |-> FALSE,
     commits |-> 0, attrs0 |-> <<>>,
     store0 |-> NoStore, dest0 |-> NoFile, store_opened |-> FALSE,
     tmp_made |-> FALSE, dst_opened |-> FALSE, staged |-> FALSE,
     failed_in |-> "", partial |-> FALSE]

NoLog == [writes |-> <<>>, failed |-> FALSE]

NoSeen == [runs |-> 0, first |-> <<>>]

\* The environment is read only for an S3 path (lines 35-36, 79-80).
Init ==
    /\ workdir \in StorePaths
    /\ env \in IF StartsWithS3(workdir) THEN SUBSET EnvVars ELSE {{}}
    /\ stores = [path \in StorePaths |-> NoStore]
    /\ files = [zp \in ZipPaths |-> NoFile]
    /\ tmp = [p \in Procs |-> NoTmp]
    /\ arr = [p \in Procs |-> NoArray]
    /\ call = [p \in Procs |-> NoCall]
    /\ hist = [p \in Procs |-> NoHist]
    /\ wlog = [path \in StorePaths |-> NoLog]
    /\ seen = [p \in Procs |-> NoSeen]
    /\ ncalls = 0

Idle(p) == call[p].pc = "done"

At(p, op, pc) == call[p].op = op /\ call[p].pc = pc

\* The call of p ends by raising e; step names the step that failed.
Raised(p, e, step) ==
    /\ call' = [call EXCEPT ![p].pc = "done", ![p].ret = "raised", ![p].exc = e,
                            ![p].fdst = NoHandle]
    /\ hist' = [hist EXCEPT ![p].failed_in = step]

(***************************************************************************)
(* write_to_zarr(da, path), storage.py:20-74                               *)
(***************************************************************************)
BeginWrite(p, path, da, fresh) ==
    /\ Idle(p)
    /\ ncalls < MaxCalls
    /\ ncalls' = ncalls + 1
    /\ arr' = [arr EXCEPT ![p] = da]
    /\ seen' = IF fresh THEN [seen EXCEPT ![p] = NoSeen] ELSE seen
    /\ call' = [call EXCEPT ![p] = [NoCall EXCEPT !.op = "write", !.pc = "resolve",
                                                  !.path = path]]
    /\ hist' = [hist EXCEPT ![p] = [NoHist EXCEPT !.attrs0 = da.attrs,
                                                  !.store0 = stores[path]]]
    /\ UNCHANGED <<workdir, env, stores, files, tmp, wlog>>

\* A caller writes an array it has just built.
WriteNew(p) ==
    \E da \in Arrays : BeginWrite(p, workdir, da, TRUE)

\* A caller writes the array object of its last write again.
WriteAgain(p) ==
    /\ arr[p] # NoArray
    /\ BeginWrite(p, workdir, arr[p], FALSE)

\* write_to_zarr as it would be with the loop of lines 47-61 moved above
\* the resolution of the filesystem.
WriteResolve_AfterLoop(p) ==
    /\ At(p, "write", "resolve")
    /\ arr' = [arr EXCEPT ![p].attrs = NormalizeAttrs(@)]
    /\ LET r == ResolveFs(call[p].path, env)
       IN  IF r.ok
           THEN /\ call' = [call EXCEPT ![p].fs = r.fs, ![p].pc = "exists"]
                /\ UNCHANGED hist
           ELSE Raised(p, r.exc, "resolve")
    /\ UNCHANGED <<workdir, env, stores, files, tmp, wlog, seen, ncalls>>

\* storage.py:34-36
WriteResolve(p) ==
    /\ At(p, "write", "resolve")
    /\ LET r == ResolveFs(call[p].path, env)
       IN  IF r.ok
           THEN /\ call' = [call EXCEPT ![p].fs = r.fs, ![p].pc = "exists"]
                /\ UNCHANGED hist
           ELSE Raised(p, r.exc, "resolve")
    /\ UNCHANGED <<workdir, env, stores, files, tmp, arr, wlog, seen, ncalls>>

\* storage.py:38-45: fs.exists(path) decides the mode and the extra
\* arguments of to_zarr.  On S3 the request itself can fail.
WriteExists(p) ==
    /\ At(p, "write", "exists")
    /\ \/ LET e == stores[call[p].path].exists
          IN  /\ call' = [call EXCEPT ![p].mode = SelectMode(e),
                                      ![p].kwargs = ExtraKwargs(SelectMode(e)),
                                      ![p].pc = "normalize"]
              /\ hist' = [hist EXCEPT ![p].exists_calls = @ + 1, ![p].existed = e]
       \/ /\ call[p].fs.kind = "s3"
          /\ call' = [call EXCEPT ![p].pc = "done", ![p].ret = "raised",
                                  ![p].exc = Underlying("fs.exists")]
          /\ hist' = [hist EXCEPT ![p].exists_calls = @ + 1,
                                  ![p].failed_in = "exists"]
    /\ UNCHANGED <<workdir, env, stores, files, tmp, arr, wlog, seen, ncalls>>

\* The entry at which the loop stopped: a dict's floats were widened in
\* place (lines 50-53) before yaml.dump raised.
EntryAtFailure(a) ==
    IF a.value.kind = "dict"
    THEN Attr(a.key, AttrVal("dict", WidenFloats(a.value.body)))
    ELSE a

\* The loop as it would be if it normalized a copy of da.attrs and left
\* the caller's mapping alone.
WriteNormalize_OnCopy(p) ==
    /\ At(p, "write", "normalize")
    /\ \/ /\ call' = [call EXCEPT ![p].pc = "prepare"]
          /\ hist' = [hist EXCEPT ![p].normalized = TRUE]
          /\ seen' = [seen EXCEPT ![p].runs = @ + 1,
                                  ![p].first = IF seen[p].runs = 0
                                               THEN NormalizeAttrs(arr[p].attrs)
                                               ELSE @]
       \/ \E n \in 1..Len(arr[p].attrs) :
            /\ CanRaise(arr[p].attrs[n].value)
            /\ Raised(p, Underlying(RaisingCall(arr[p].attrs[n].value)), "normalize")
            /\ UNCHANGED seen
    /\ UNCHANGED <<workdir, env, stores, files, tmp, arr, wlog, ncalls>>

\* storage.py:46-61: the loop over da.attrs, outside the try block.  It
\* runs to its end, or yaml.dump or AreaDefinition.dump raises at entry n.
WriteNormalize(p) ==
    /\ At(p, "write", "normalize")
    /\ \/ /\ arr' = [arr EXCEPT ![p].attrs = NormalizeAttrs(@)]
          /\ call' = [call EXCEPT ![p].pc = "prepare"]
          /\ hist' = [hist EXCEPT ![p].normalized = TRUE]
          /\ seen' = [seen EXCEPT ![p].runs = @ + 1,
                                  ![p].first = IF seen[p].runs = 0
                                               THEN NormalizeAttrs(arr[p].attrs)
                                               ELSE @]
       \/ \E n \in 1..Len(arr[p].attrs) :
            /\ CanRaise(arr[p].attrs[n].value)
            /\ arr' = [arr EXCEPT ![p].attrs =
                          [NormalizeUpTo(@, n) EXCEPT ![n] = EntryAtFailure(@)]]
            /\ Raised(p, Underlying(RaisingCall(arr[p].attrs[n].value)), "normalize")
            /\ UNCHANGED seen
    /\ UNCHANGED <<workdir, env, stores, files, tmp, wlog, ncalls>>

\* storage.py:63-66 and 71-72: chunk, astype, to_dataset inside the try.
WritePrepare(p) ==
    /\ At(p, "write", "prepare")
    /\ \/ /\ call' = [call EXCEPT ![p].pc = "commit"]
          /\ UNCHANGED hist
       \/ \E origin \in {"chunk", "to_dataset"} :
            Raised(p, ZarrWriteError(call[p].path, Underlying(origin)), "prepare")
    /\ UNCHANGED <<workdir, env, stores, files, tmp, arr, wlog, seen, ncalls>>

\* The commit as it would be with one retry: a first failed attempt is
\* followed by a second one instead of being raised.
WriteCommit_Retry(p) ==
    /\ At(p, "write", "commit")
    /\ LET path == call[p].path
           ds == Dataset(arr[p])
           err == ZarrWriteError(path, Underlying("to_zarr"))
       IN  \/ /\ call[p].mode = "a" => stores[path].exists
              /\ stores' = [stores EXCEPT ![path] =
                               ToZarr(@, ds, call[p].mode, call[p].kwargs)]
              /\ wlog' = [wlog EXCEPT ![path].writes = Append(@, ds)]
              /\ call' = [call EXCEPT ![p].pc = "done", ![p].ret = "ok"]
              /\ hist' = [hist EXCEPT ![p].commits = @ + 1]
           \/ /\ hist[p].commits = 0
              /\ hist' = [hist EXCEPT ![p].commits = @ + 1]
              /\ UNCHANGED <<stores, wlog, call>>
           \/ /\ hist[p].commits > 0
              /\ UNCHANGED stores
              /\ wlog' = [wlog EXCEPT ![path].failed = TRUE]
              /\ call' = [call EXCEPT ![p].pc = "done", ![p].ret = "raised",
                                      ![p].exc = err]
              /\ hist' = [hist EXCEPT ![p].commits = @ + 1, ![p].failed_in = "commit"]
    /\ UNCHANGED <<workdir, env, files, tmp, arr, seen, ncalls>>

\* storage.py:67-74: the commit, and the except clause around it.  It
\* succeeds, or fails before it wrote anything, or fails part-way.
WriteCommit(p) ==
    /\ At(p, "write", "commit")
    /\ LET path == call[p].path
           ds == Dataset(arr[p])
           err == ZarrWriteError(path, Underlying("to_zarr"))
       IN  \/ /\ call[p].mode = "a" => stores[path].exists
              /\ stores' = [stores EXCEPT ![path] =
                               ToZarr(@, ds, call[p].mode, call[p].kwargs)]
              /\ wlog' = [wlog EXCEPT ![path].writes = Append(@, ds)]
              /\ call' = [call EXCEPT ![p].pc = "done", ![p].ret = "ok"]
              /\ hist' = [hist EXCEPT ![p].commits = @ + 1]
           \/ /\ UNCHANGED stores
              /\ wlog' = [wlog EXCEPT ![path].failed = TRUE]
              /\ call' = [call EXCEPT ![p].pc = "done", ![p].ret = "raised",
                                      ![p].exc = err]
              /\ hist' = [hist EXCEPT ![p].commits = @ + 1, ![p].failed_in = "commit"]
           \/ /\ call[p].mode = "a" => stores[path].exists
              /\ stores' = [stores EXCEPT ![path] = ZarrPartial(@, ds, call[p].mode)]
              /\ wlog' = [wlog EXCEPT ![path].failed = TRUE]
              /\ call' = [call EXCEPT ![p].pc = "done", ![p].ret = "raised",
                                      ![p].exc = err]
              /\ hist' = [hist EXCEPT ![p].commits = @ + 1, ![p].failed_in = "commit",
                                      ![p].partial = TRUE]
    /\ UNCHANGED <<workdir, env, files, tmp, arr, seen, ncalls>>

Write(p) ==
    \/ WriteNew(p)
    \/ WriteAgain(p)
    \/ WriteResolve(p)
    \/ WriteExists(p)
    \/ WriteNormalize(p)
    \/ WritePrepare(p)
    \/ WriteCommit(p)

(***************************************************************************)
(* create_latest_zip(zarr_path), storage.py:76-96                          *)
(***************************************************************************)
ZipStart(p) ==
    /\ Idle(p)
    /\ ncalls < MaxCalls
    /\ ncalls' = ncalls + 1
    /\ call' = [call EXCEPT ![p] = [NoCall EXCEPT !.op = "zip", !.pc = "resolve",
                                                  !.path = workdir]]
    /\ hist' = [hist EXCEPT ![p] = [NoHist EXCEPT !.attrs0 = arr[p].attrs,
                                                  !.store0 = stores[workdir],
                                                  !.dest0 = files[ZipPath(workdir)]]]
    /\ UNCHANGED <<workdir, env, stores, files, tmp, arr, wlog, seen>>

\* storage.py:78-80
ZipResolve(p) ==
    /\ At(p, "zip", "resolve")
    /\ LET r == ResolveFs(call[p].path, env)
       IN  IF r.ok
           THEN /\ call' = [call EXCEPT ![p].fs = r.fs, ![p].pc = "open_store"]
                /\ UNCHANGED hist
           ELSE Raised(p, r.exc, "resolve")
    /\ UNCHANGED <<workdir, env, stores, files, tmp, arr, wlog, seen, ncalls>>

\* storage.py:83-86: xr.open_zarr(..., consolidated=True), outside the try
\* block: it raises when there is no store with consolidated metadata.
ZipOpenStore(p) ==
    /\ At(p, "zip", "open_store")
    /\ IF stores[call[p].path].exists /\ stores[call[p].path].complete
       THEN /\ call' = [call EXCEPT ![p].pc = "tmp"]
            /\ hist' = [hist EXCEPT ![p].store_opened = TRUE]
       ELSE Raised(p, Underlying("open_zarr"), "open_store")
    /\ UNCHANGED <<workdir, env, stores, files, tmp, arr, wlog, seen, ncalls>>

\* storage.py:88 and the first item of the with statement on line 89: the
\* archive path, and an empty temporary file that is deleted when closed.
ZipTmp(p) ==
    /\ At(p, "zip", "tmp")
    /\ tmp' = [tmp EXCEPT ![p] = [NoTmp EXCEPT !.exists = TRUE]]
    /\ call' = [call EXCEPT ![p].zippath = ZipPath(call[p].path), ![p].pc = "dst_open"]
    /\ hist' = [hist EXCEPT ![p].tmp_made = TRUE]
    /\ UNCHANGED <<workdir, env, stores, files, arr, wlog, seen, ncalls>>

\* fs.open(path, "wb") on the local filesystem opens the file itself and
\* truncates it; on S3 the bytes are buffered and become the object when
\* the handle is closed.
OpenForWrite(fs, f) ==
    IF fs.kind = "local" THEN [NoFile EXCEPT !.exists = TRUE] ELSE f

\* One block of the temporary file t written through the handle.  The
\* bytes end with the archive's central directory only when the ZipStore
\* that wrote t had been closed.
WriteBlock(fs, f, t) ==
    IF fs.kind = "local"
    THEN [exists |-> TRUE, blocks |-> f.blocks + 1, snap |-> t.snap,
          final |-> t.closed]
    ELSE f

\* The handle closed: on S3 what was buffered replaces the object.
CloseHandle(fs, f, h) ==
    IF fs.kind = "s3"
    THEN [exists |-> TRUE, blocks |-> h.buf, snap |-> h.snap, final |-> h.final]
    ELSE f

\* The second item of the with statement on line 89: fs.open(zippath,
\* "wb"), before the try block and before anything is staged.  When it
\* raises, the with statement closes the temporary file.
ZipDstOpen(p) ==
    /\ At(p, "zip", "dst_open")
    /\ LET zp == call[p].zippath
       IN  \/ /\ files' = [files EXCEPT ![zp] = OpenForWrite(call[p].fs, @)]
              /\ call' = [call EXCEPT ![p].fdst = [NoHandle EXCEPT !.open = TRUE],
                                      ![p].pc = "stage"]
              /\ hist' = [hist EXCEPT ![p].dst_opened = TRUE]
              /\ UNCHANGED tmp
           \/ /\ Raised(p, Underlying("fs.open"), "dst_open")
              /\ tmp' = [tmp EXCEPT ![p] = NoTmp]
              /\ UNCHANGED files
    /\ UNCHANGED <<workdir, env, stores, arr, wlog, seen, ncalls>>

\* The unwinding as it would be with a temporary file made with
\* delete=False: nothing removes it.
ZipUnwind_KeepTmp(p, e, step) ==
    /\ UNCHANGED tmp
    /\ files' = [files EXCEPT ![call[p].zippath] =
                     CloseHandle(call[p].fs, @, call[p].fdst)]
    /\ Raised(p, e, step)

\* The with statement left by an exception raised in the try block
\* (lines 94-96): fdst is closed, then the temporary file is closed and
\* deleted; e reaches the caller unless closing fdst raises in turn.
ZipUnwind(p, e, step) ==
    /\ tmp' = [tmp EXCEPT ![p] = NoTmp]
    /\ \/ /\ files' = [files EXCEPT ![call[p].zippath] =
                          CloseHandle(call[p].fs, @, call[p].fdst)]
          /\ Raised(p, e, step)
       \/ /\ UNCHANGED files
          /\ Raised(p, Underlying("fdst.close"), step)

\* storage.py:91-92: the dataset written into a ZipStore at the temporary
\* file's name.  The ZipStore is not closed.
ZipStage(p) ==
    /\ At(p, "zip", "stage")
    /\ \/ /\ tmp' = [tmp EXCEPT ![p] =
                        [exists |-> TRUE, blocks |-> ArchiveBlocks,
                         snap |-> stores[call[p].path], closed |-> FALSE]]
          /\ call' = [call EXCEPT ![p].pc = "copy"]
          /\ hist' = [hist EXCEPT ![p].staged = TRUE]
          /\ UNCHANGED files
       \/ ZipUnwind(p, ZipWriteError(call[p].zippath, Underlying("to_zarr")), "stage")
    /\ UNCHANGED <<workdir, env, stores, arr, wlog, seen, ncalls>>

\* storage.py:93: shutil.copyfileobj(fsrc, fdst, length=16 * 1024), one
\* block a step; a read or a write can raise.
ZipCopy(p) ==
    /\ At(p, "zip", "copy")
    /\ LET zp == call[p].zippath
           n == call[p].copied
       IN  \/ /\ n < tmp[p].blocks
              /\ files' = [files EXCEPT ![zp] = WriteBlock(call[p].fs, @, tmp[p])]
              /\ call' = [call EXCEPT ![p].copied = n + 1,
                                      ![p].fdst.buf = n + 1,
                                      ![p].fdst.snap = tmp[p].snap,
                                      ![p].fdst.final = tmp[p].closed]
              /\ UNCHANGED <<tmp, hist>>
           \/ /\ n = tmp[p].blocks
              /\ call' = [call EXCEPT ![p].pc = "close"]
              /\ UNCHANGED <<files, tmp, hist>>
           \/ /\ n < tmp[p].blocks
              /\ ZipUnwind(p, ZipWriteError(zp, Underlying("copyfileobj")), "copy")
    /\ UNCHANGED <<workdir, env, stores, arr, wlog, seen, ncalls>>

\* The end of the with statement and line 96: fdst is closed (the flush,
\* and on S3 the upload, happen here and can fail), the temporary file is
\* closed and deleted, the archive path is returned.
ZipClose(p) ==
    /\ At(p, "zip", "close")
    /\ tmp' = [tmp EXCEPT ![p] = NoTmp]
    /\ \/ /\ files' = [files EXCEPT ![call[p].zippath] =
                          CloseHandle(call[p].fs, @, call[p].fdst)]
          /\ call' = [call EXCEPT ![p].pc = "done", ![p].ret = "ok",
                                  ![p].value = call[p].zippath,
                                  ![p].fdst = NoHandle]
          /\ UNCHANGED hist
       \/ /\ UNCHANGED files
          /\ Raised(p, Underlying("fdst.close"), "close")
    /\ UNCHANGED <<workdir, env, stores, arr, wlog, seen, ncalls>>

Zip(p) ==
    \/ ZipStart(p)
    \/ ZipResolve(p)
    \/ ZipOpenStore(p)
    \/ ZipTmp(p)
    \/ ZipDstOpen(p)
    \/ ZipStage(p)
    \/ ZipCopy(p)
    \/ ZipClose(p)

(***************************************************************************)
(* One caller at a time, as the callers of this module are required to be. *)
(***************************************************************************)
Next == Write("main") \/ Zip("main")

Spec == Init /\ [][Next]_vars

(***************************************************************************)
(* The normalization loop over every attribute mapping of up to two        *)
(* entries whose values are of the kinds the data model lists: one caller  *)
(* writes its array to the local store again and again.                    *)
(***************************************************************************)
AttrKeys == <<"k1", "k2">>

AttrMaps ==
    UNION { { [i \in 1..n |-> Attr(AttrKeys[i], f[i])] : f \in [1..n -> SupportedValues] } :
            n \in 0..Len(AttrKeys) }

InitNorm ==
    /\ workdir = LocalPath
    /\ env = {}
    /\ stores = [path \in StorePaths |-> NoStore]
    /\ files = [zp \in ZipPaths |-> NoFile]
    /\ tmp = [p \in Procs |-> NoTmp]
    /\ \E a \in AttrMaps :
         arr = [p \in Procs |->
                  IF p = "main"
                  THEN [attrs |-> a, time |-> <<1>>,
                        variable |-> <<Label("object", "VIS006")>>]
                  ELSE NoArray]
    /\ call = [p \in Procs |-> NoCall]
    /\ hist = [p \in Procs |-> NoHist]
    /\ wlog = [path \in StorePaths |-> NoLog]
    /\ seen = [p \in Procs |-> NoSeen]
    /\ ncalls = 0

NextNorm ==
    \/ WriteAgain("main")
    \/ WriteResolve("main")
    \/ WriteExists("main")
    \/ WriteNormalize("main")
    \/ WritePrepare("main")
    \/ WriteCommit("main")

SpecNorm == InitNorm /\ [][NextNorm]_vars

(***************************************************************************)
(* The same calls on store paths of every shape a caller can pass: with a  *)
(* parent directory, without one, and with a trailing slash.               *)
(***************************************************************************)
BarePath == <<"sat.zarr">>

SlashPath == <<"data", "sat.zarr", "">>

PackagedPaths == StorePaths \cup {BarePath, SlashPath}

InitPaths ==
    /\ workdir \in PackagedPaths
    /\ env \in IF StartsWithS3(workdir) THEN SUBSET EnvVars ELSE {{}}
    /\ stores = [path \in PackagedPaths |-> NoStore]
    /\ files = [zp \in { ZipPath(path) : path \in PackagedPaths } |-> NoFile]
    /\ tmp = [p \in Procs |-> NoTmp]
    /\ arr = [p \in Procs |-> NoArray]
    /\ call = [p \in Procs |-> NoCall]
    /\ hist = [p \in Procs |-> NoHist]
    /\ wlog = [path \in PackagedPaths |-> NoLog]
    /\ seen = [p \in Procs |-> NoSeen]
    /\ ncalls = 0

SpecPaths == InitPaths /\ [][Next]_vars

(***************************************************************************)
(* Two callers writing to the same path with nothing between them: the     *)
(* module takes no lock, so the steps of their calls interleave freely.    *)
(***************************************************************************)
\* Each caller makes one call, with an array it has just built.
WriteOnce(p) ==
    /\ call[p].op = "none"
    /\ WriteNew(p)

NextRace ==
    \E p \in Procs :
        \/ WriteOnce(p)
        \/ WriteResolve(p)
        \/ WriteExists(p)
        \/ WriteNormalize(p)
        \/ WritePrepare(p)
        \/ WriteCommit(p)

SpecRace == Init /\ [][NextRace]_vars

(***************************************************************************)
(* Properties.                                                             *)
(***************************************************************************)
RequiredSet == { RequiredVars[i] : i \in 1..Len(RequiredVars) }

EncodingNs == "nanoseconds since 1970-01-01"

\* The archive a reader finds at the destination of p's packaging call.
Destination(p) == files[ZipPath(call[p].path)]

\* The archive file holds all the blocks of a staged copy of store st.
CompleteArchiveOf(f, st) ==
    f.exists /\ f.blocks = ArchiveBlocks /\ f.snap = st

(* C1: in every state during and after a create_latest_zip call, failed or
   not, the file at the destination is the archive that was there when the
   call began or the complete archive of the store; never an empty or a
   truncated file. *)
C1_DestinationOldOrNew ==
    \A p \in Procs :
        call[p].op = "zip" =>
            \/ Destination(p) = hist[p].dest0
            \/ CompleteArchiveOf(Destination(p), hist[p].store0)

RECURSIVE ConcatTimes(_)
ConcatTimes(ws) ==
    IF ws = <<>> THEN <<>> ELSE Head(ws).time \o ConcatTimes(Tail(ws))

RECURSIVE ConcatChunks(_)
ConcatChunks(ws) ==
    IF ws = <<>> THEN <<>> ELSE Head(ws).chunks \o ConcatChunks(Tail(ws))

\* Every time value of a call is later than every time value of the calls
\* before it.
StrictlyLater(ws) ==
    \A i, j \in 1..Len(ws) :
        i < j => \A a \in 1..Len(ws[i].time), b \in 1..Len(ws[j].time) :
                    ws[i].time[a] < ws[j].time[b]

SameVariable(ws) == \A i \in 1..Len(ws) : ws[i].variable = ws[1].variable

\* Every write_to_zarr call to the path so far committed, each with later
\* times than the ones before.
CleanHistory(path) ==
    /\ ~wlog[path].failed
    /\ wlog[path].writes # <<>>
    /\ StrictlyLater(wlog[path].writes)

\* The store holds the time values and the chunks of the calls in call
\* order, under the encoding the first call set.
HoldsWritesInOrder(path) ==
    /\ stores[path].exists
    /\ stores[path].units = EncodingNs
    /\ stores[path].time = ConcatTimes(wlog[path].writes)
    /\ stores[path].chunks = ConcatChunks(wlog[path].writes)

(* C2, as stated: after successful write_to_zarr calls to one path with
   strictly later times, the store's time dimension and chunks are those of
   the calls in call order, and the variable coordinate is still the one
   the first call wrote. *)
C2_AppendKeepsVariable ==
    \A path \in StorePaths :
        CleanHistory(path) =>
            /\ HoldsWritesInOrder(path)
            /\ stores[path].variable = wlog[path].writes[1].variable

(* C2, amended: the same, for calls whose arrays all carry the same
   variable coordinate. *)
C2_AppendExtendsTime ==
    \A path \in StorePaths :
        (CleanHistory(path) /\ SameVariable(wlog[path].writes)) =>
            /\ HoldsWritesInOrder(path)
            /\ stores[path].variable = wlog[path].writes[1].variable

C2_Witness ==
    /\ CleanHistory(workdir)
    /\ SameVariable(wlog[workdir].writes)
    /\ Len(wlog[workdir].writes) >= 2
    /\ call["main"].op = "write" /\ call["main"].ret = "ok"
    /\ call["main"].mode = "a"

\* The existence check of p's write_to_zarr call has returned.
ModeSelected(p) ==
    /\ call[p].op = "write"
    /\ hist[p].exists_calls = 1
    /\ hist[p].failed_in # "exists"

(* C3: write_to_zarr appends exactly when fs.exists(path) returned true and
   creates otherwise; creating, it passes the nanoseconds-since-1970 time
   encoding and no append dimension; appending, the time append dimension
   and no encoding. *)
C3_ModeFollowsExistence ==
    \A p \in Procs :
        ModeSelected(p) =>
            /\ call[p].mode = (IF hist[p].existed THEN "a" ELSE "w")
            /\ call[p].mode = "w" =>
                   call[p].kwargs = [append_dim |-> "", encoding |-> EncodingNs]
            /\ call[p].mode = "a" =>
                   call[p].kwargs = [append_dim |-> "time", encoding |-> ""]

\* An append selected although the array's variable coordinate is not the
\* store's.
C3_Witness ==
    /\ ModeSelected("main")
    /\ call["main"].mode = "a"
    /\ call["main"].pc = "commit"
    /\ stores[workdir].complete
    /\ stores[workdir].variable # AsStr(arr["main"].variable)

(* C4: a write_to_zarr call that failed while normalizing the attributes,
   chunking, converting or committing raised the store-write error, which
   carries the path and the underlying error as its cause. *)
C4_WriteFailuresWrapped ==
    \A p \in Procs :
        ( /\ call[p].op = "write"
          /\ call[p].ret = "raised"
          /\ hist[p].failed_in \in {"normalize", "prepare", "commit"} ) =>
            /\ call[p].exc.what = "Error writing dataset to zarr store"
            /\ call[p].exc.path = call[p].path
            /\ call[p].exc.cause # ""

(* C5: a create_latest_zip call that failed while staging, opening the
   destination, copying or closing the destination raised the packaging
   error, which carries the destination path and the underlying error as
   its cause. *)
C5_ZipFailuresWrapped ==
    \A p \in Procs :
        ( /\ call[p].op = "zip"
          /\ call[p].ret = "raised"
          /\ hist[p].failed_in \in {"dst_open", "stage", "copy", "close"} ) =>
            /\ call[p].exc.what = "Error writing dataset to zip store"
            /\ call[p].exc.path = ZipPath(call[p].path)
            /\ call[p].exc.cause # ""

(* C6: when a create_latest_zip call that created its temporary file has
   returned or raised, the temporary file no longer exists. *)
C6_TmpReleased ==
    \A p \in Procs :
        (call[p].op = "zip" /\ Idle(p) /\ hist[p].tmp_made) => ~tmp[p].exists

\* A call that failed in the middle of the copy.
C6_Witness ==
    /\ call["main"].op = "zip" /\ Idle("main")
    /\ hist["main"].tmp_made
    /\ hist["main"].failed_in = "copy"
    /\ call["main"].copied >= 1
    /\ ~tmp["main"].exists

\* p's call raised out of the resolution of the filesystem.
FailedResolving(p) ==
    call[p].ret = "raised" /\ hist[p].failed_in = "resolve"

(* C7: a call whose backend resolution failed did nothing else: no
   existence check, no change to the array's attributes, no store opened or
   written, no temporary file, the destination archive not opened. *)
C7_ResolveFailsFirst ==
    \A p \in Procs :
        FailedResolving(p) =>
            /\ call[p].exc.what = "missing required authorization environment variable"
            /\ hist[p].exists_calls = 0
            /\ arr[p].attrs = hist[p].attrs0
            /\ ~hist[p].normalized
            /\ hist[p].commits = 0
            /\ ~hist[p].store_opened
            /\ stores[call[p].path] = hist[p].store0
            /\ ~hist[p].tmp_made
            /\ ~tmp[p].exists
            /\ ~hist[p].dst_opened
            /\ call[p].op = "zip" => Destination(p) = hist[p].dest0

\* A write of an array with attributes still to be normalized, to an S3
\* path, with a credential missing.
C7_Witness ==
    /\ FailedResolving("main")
    /\ call["main"].op = "write"
    /\ StartsWithS3(call["main"].path)
    /\ \E i \in 1..Len(arr["main"].attrs) : arr["main"].attrs[i].value.kind = "dict"

\* The required credentials that are not set.
Missing == RequiredSet \ env

(* C8: get_s3_fs fails exactly when a required credential is absent; with
   exactly one absent the error names that one; a handle is made only with
   both present.  So for the environment of the run, and so for the calls
   that resolved an S3 path in it. *)
C8_CredentialsDecide ==
    /\ get_s3_fs(env).ok <=> Missing = {}
    /\ Cardinality(Missing) = 1 => get_s3_fs(env).exc.var \in Missing
    /\ ~get_s3_fs(env).ok =>
           get_s3_fs(env).exc.what = "missing required authorization environment variable"
    /\ get_s3_fs(env).fs.kind = "s3" <=> Missing = {}
    /\ \A p \in Procs :
          /\ call[p].fs.kind = "s3" => Missing = {}
          /\ FailedResolving(p) =>
                 /\ Missing # {}
                 /\ call[p].exc.var \in Missing
                 /\ call[p].fs = NoFs

\* The secret key alone is missing, and the error of a call names it.
C8_Witness ==
    /\ Missing = {"AWS_SECRET_ACCESS_KEY"}
    /\ FailedResolving("main")
    /\ call["main"].exc.var = "AWS_SECRET_ACCESS_KEY"

\* The kinds a normalized value can have: a string (a boolean, a dict, an
\* area and a datetime are strings by then) or a number.
ScalarKinds == {"str", "num"}

\* The loop of p's write_to_zarr call has run to its end.
LoopDone(p) == call[p].op = "write" /\ hist[p].normalized

(* C9: once the normalization loop of a write_to_zarr call has run, every
   value of the array's attributes is a string or a number, under the keys
   the mapping had: no dict, boolean, area definition or datetime is left. *)
C9_NormalizedAreScalars ==
    \A p \in Procs :
        LoopDone(p) =>
            /\ Len(arr[p].attrs) = Len(hist[p].attrs0)
            /\ \A i \in 1..Len(arr[p].attrs) :
                  /\ arr[p].attrs[i].key = hist[p].attrs0[i].key
                  /\ arr[p].attrs[i].value.kind \in ScalarKinds

\* A mapping of a dict and a datetime, normalized.
C9_Witness ==
    /\ LoopDone("main")
    /\ Len(hist["main"].attrs0) = 2
    /\ hist["main"].attrs0[1].value.kind = "dict"
    /\ hist["main"].attrs0[2].value.kind = "datetime"
    /\ arr["main"].attrs[2].value.kind = "str"

(* C10: normalizing a normalized mapping changes nothing: whatever the
   array's attributes are, normalizing them twice gives what normalizing
   them once gives, and after every write_to_zarr call with the same array
   object its attributes are what the first call left. *)
C10_NormalizationIdempotent ==
    \A p \in Procs :
        /\ NormalizeAttrs(NormalizeAttrs(arr[p].attrs)) = NormalizeAttrs(arr[p].attrs)
        /\ (LoopDone(p) /\ seen[p].runs >= 1) => arr[p].attrs = seen[p].first

\* The second call with an array whose attributes held a dict of a
\* reduced-precision float and a boolean.
C10_Witness ==
    /\ LoopDone("main")
    /\ seen["main"].runs >= 2
    /\ Len(seen["main"].first) = 2
    /\ seen["main"].first[1].value = AttrVal("str", <<"gain", ":", "0.5", "\n">>)
    /\ seen["main"].first[2].value = AttrVal("str", <<"True">>)
    /\ arr["main"].attrs = seen["main"].first

\* The directory a store path names: a trailing slash names the same one.
RECURSIVE Location(_)
Location(path) ==
    IF Len(path) > 1 /\ path[Len(path)] = ""
    THEN Location(SubSeq(path, 1, Len(path) - 1))
    ELSE path

\* latest.zarr.zip in the parent directory of the store.
Sibling(path) ==
    SubSeq(Location(path), 1, Len(Location(path)) - 1) \o <<"latest.zarr.zip">>

\* zp is a path below the directory of the store.
Inside(zp, path) ==
    /\ Len(zp) > Len(Location(path))
    /\ SubSeq(zp, 1, Len(Location(path))) = Location(path)

(* C11: whatever the shape of the store path, the path a successful
   create_latest_zip returns is latest.zarr.zip in the parent directory of
   the store, and is not a path inside the store. *)
C11_ArchiveIsSibling ==
    \A p \in Procs :
        (call[p].op = "zip" /\ call[p].ret = "ok") =>
            /\ call[p].value = Sibling(call[p].path)
            /\ ~Inside(call[p].value, call[p].path)

\* The files below the directory of the store, now and when the packaging
\* call of p began (the call touches no file but its destination).
FilesInside(path) ==
    [zp \in { z \in DOMAIN files : Inside(z, path) } |-> files[zp]]

FilesInside0(p) ==
    [zp \in { z \in DOMAIN files : Inside(z, call[p].path) } |->
        IF zp = ZipPath(call[p].path) THEN hist[p].dest0 ELSE files[zp]]

(* C12: during and after a create_latest_zip call, on every path through
   it, what is under the store path is what was there when the call began:
   the store itself and every file below its directory. *)
C12_StoreUntouched ==
    \A p \in Procs :
        call[p].op = "zip" =>
            /\ stores[call[p].path] = hist[p].store0
            /\ FilesInside(call[p].path) = FilesInside0(p)

\* What a reader of an archive file gets: the staged store when the file
\* holds every block and ends with the central directory, nothing else.
ReadArchive(f) ==
    IF f.exists /\ f.blocks = ArchiveBlocks /\ f.final
    THEN [ok |-> TRUE, store |-> f.snap]
    ELSE [ok |-> FALSE, store |-> NoStore]

(* C13: after successful writes to a store and a successful
   create_latest_zip of it, the published file is a complete, finalized
   archive: reading it back gives the data and the normalized attributes
   the store held when it was packaged. *)
C13_ArchiveReadsBack ==
    \A p \in Procs :
        ( /\ call[p].op = "zip"
          /\ call[p].ret = "ok"
          /\ ~wlog[call[p].path].failed ) =>
            ReadArchive(Destination(p)) = [ok |-> TRUE, store |-> hist[p].store0]

\* The write_to_zarr call of p has ended.
WriteEnded(p) == call[p].op = "write" /\ Idle(p)

(* C14, as stated: after any write_to_zarr call that passed the resolution
   of the backend and the existence check, the caller's array carries the
   normalized attribute values. *)
C14_NormalizedAfterCheck ==
    \A p \in Procs :
        (WriteEnded(p) /\ ModeSelected(p)) =>
            arr[p].attrs = NormalizeAttrs(hist[p].attrs0)

(* C14: once the normalization loop of a write_to_zarr call has run to its
   end, the caller's own array carries the normalized attribute values in
   place, for the rest of the call and after it, whether the commit
   succeeds or fails: a failure does not roll the mutation back. *)
C14_NormalizedInPlace ==
    \A p \in Procs :
        LoopDone(p) => arr[p].attrs = NormalizeAttrs(hist[p].attrs0)

\* A call whose commit failed, with the caller's attributes no longer the
\* ones it passed in.
C14_Witness ==
    /\ WriteEnded("main")
    /\ LoopDone("main")
    /\ hist["main"].failed_in = "commit"
    /\ arr["main"].attrs = NormalizeAttrs(hist["main"].attrs0)
    /\ arr["main"].attrs # hist["main"].attrs0

(* C15: a create_latest_zip call first touches the destination archive
   after staging has completed: until then, and after a call whose staging
   failed, the destination is not opened and an archive that was there
   before the call is unchanged. *)
C15_DestinationAfterStaging ==
    \A p \in Procs :
        (call[p].op = "zip" /\ ~hist[p].staged) =>
            /\ ~hist[p].dst_opened
            /\ Destination(p) = hist[p].dest0

(* C16: a write_to_zarr call checks the existence of the path at most once
   and attempts the commit at most once: a commit that failed has ended
   the call with the error raised, after that one attempt. *)
C16_NoRetry ==
    \A p \in Procs :
        call[p].op = "write" =>
            /\ hist[p].exists_calls <= 1
            /\ hist[p].commits <= 1
            /\ hist[p].commits = 1 => WriteEnded(p)
            /\ hist[p].failed_in = "commit" =>
                  /\ call[p].ret = "raised"
                  /\ hist[p].commits = 1

\* A call whose one commit attempt failed, the store left as it was.
C16_Witness ==
    /\ WriteEnded("main")
    /\ hist["main"].failed_in = "commit"
    /\ hist["main"].exists_calls = 1
    /\ hist["main"].commits = 1
    /\ call["main"].ret = "raised"
    /\ stores[call["main"].path] = hist["main"].store0

\* The calls of p and q both checked the path before anything was there.
BothSawNothing(p, q) ==
    /\ p # q
    /\ call[p].path = call[q].path
    /\ ModeSelected(p) /\ ~hist[p].existed
    /\ ModeSelected(q) /\ ~hist[q].existed

\* The dataset of the last commit that succeeded on path.
LastWrite(path) == wlog[path].writes[Len(wlog[path].writes)]

(* C17: when two write_to_zarr calls to one fresh path both run the
   existence check before either commits, both select the create mode,
   and once both have committed the store holds the data of the later
   commit alone: the earlier write is replaced, not appended to. *)
C17_BothCreateLastWins ==
    \A p, q \in Procs :
        BothSawNothing(p, q) =>
            /\ call[p].mode = "w" /\ call[q].mode = "w"
            /\ (call[p].ret = "ok" /\ call[q].ret = "ok") =>
                  /\ Len(wlog[call[p].path].writes) = 2
                  /\ stores[call[p].path] =
                         ZarrCreate(LastWrite(call[p].path), ExtraKwargs("w"))

\* The lost write: two successful calls with different times, and the
\* store holds the time of the second one only.
C17_Witness ==
    /\ BothSawNothing("main", "other")
    /\ call["main"].ret = "ok" /\ call["other"].ret = "ok"
    /\ Len(wlog[workdir].writes) = 2
    /\ wlog[workdir].writes[1].time # wlog[workdir].writes[2].time
    /\ stores[workdir].time = wlog[workdir].writes[2].time

\* A store that a failed commit left: the path exists, the store is not
\* complete.
PartlyWritten(st) == st.exists /\ ~st.complete

(* C18: nothing cleans up after a failed create: when the commit of a
   create-mode call failed after it had made the path exist, the path
   still exists once the call has raised, and the next write_to_zarr call
   to it selects the append mode, with append_dim and without the time
   encoding, against the partly written store. *)
C18_FailedCreateStays ==
    \A p \in Procs :
        call[p].op = "write" =>
            /\ (hist[p].partial /\ call[p].mode = "w") =>
                  /\ call[p].ret = "raised"
                  /\ PartlyWritten(stores[call[p].path])
            /\ (ModeSelected(p) /\ PartlyWritten(hist[p].store0)) =>
                  /\ call[p].mode = "a"
                  /\ call[p].kwargs = [append_dim |-> "time", encoding |-> ""]

\* The call after a failed create: append mode selected, no encoding
\* passed, on a store that never got one.
C18_Witness ==
    /\ ModeSelected("main")
    /\ hist["main"].store0 = [NoStore EXCEPT !.exists = TRUE]
    /\ wlog[workdir].failed
    /\ wlog[workdir].writes = <<>>
    /\ call["main"].mode = "a"
    /\ call["main"].kwargs.encoding = ""
    /\ stores[workdir].units = ""

====
